---- MODULE Spec2Model ----
(***************************************************************************)
(* Drip monitor backend (src/main.py): the pigpio falling-edge callback    *)
(* drop_detected, the status formatter format_response, the periodic       *)
(* monitor_loop (alert evaluation and hub broadcast), the per-observer     *)
(* websocket_endpoint loop and the query endpoint get_drip_rate.           *)
(*                                                                         *)
(* Time is counted in ticks of 0.1 s, the shortest sleep of the program.   *)
(* The callback runs on pigpio's own thread and interleaves with the       *)
(* event loop at every access to a global; the asyncio tasks run one at a  *)
(* time on the event loop and give it up only at an await.                 *)
(* A drip rate is the exact fraction <<numerator, denominator>>.           *)
(***************************************************************************)
EXTENDS Integers, Sequences, FiniteSets, TLC

\* ---------------------------------------------------------------- bounds
\* Last tick of the clock in the timing specification.
MaxTime == 62
\* Last tick of the clock in the hub specification.
HubTime == 10
\* Last tick of the clock in the register specification.
RegTime == 30
\* Falling edges delivered in the register specification.
RegDrops == 2
\* Falling edges delivered in the timing specification.
MaxDrops == 1
\* Falling edges delivered in the hub specification.
HubDrops == 1
\* Observers that may connect.
MaxClients == 2
\* Largest drip rate, and largest denominator of one, given to the formatter.
MaxRate == 130
MaxDen == 2
\* Last tick of the clock in the observer-set specification.
SetTime == 10
\* Last tick of the clock and observers in the progress specification.
LiveTime == 20
LiveClients == 1
\* Last tick, falling edges and observers in the push specification.
PushTime == 22
PushDrops == 1
PushClients == 1

\* ------------------------------------------------------ program constants
\* Ticks per second: asyncio.sleep(0.1) is one tick.
TicksPerSecond == 10
PollSleep == 1
CycleSleep == 1 * TicksPerSecond
PushSleep == 2 * TicksPerSecond
BlockedAfter == 3 * TicksPerSecond
StoppedAfter == 5 * TicksPerSecond
\* drip_rate = 60 / elapsed, elapsed in seconds.
PerMinute == 60
DisplayWrap == 50

Obs == 1..MaxClients

VARIABLES
  clock,           \* time.time(), in ticks
  level,           \* pi.read(IR_PIN): 0 = reflection, 1 = none
  drop_count, last_drop_time, drip_rate, alert_status, clients,
  dd_pc, dd_now, dd_elapsed,      \* drop_detected on the callback thread
  cur,                            \* the task running on the event loop
  fr_pc, fr_tmp,                  \* the running format_response call
  m_pc, m_now, m_start, m_wake,   \* monitor_loop: position, now, start_reflecting
  m_it, m_ws, m_disc,             \* monitor_loop: list iterator, ws, disconnected
  w_pc, w_wake, alive,            \* websocket_endpoint per observer; its transport
  q_resp,                         \* the last response of get_drip_rate
  \* history variables (not program state)
  m_lvl,           \* the level read at line 86 in the current cycle
  m_set,           \* whether the current cycle assigned alert_status
  m_sent,          \* the pushes <<ws, text>> of the current hub tick
  low_since,       \* the tick at which the level last changed
  blk_held,        \* BLOCKED was set with the level low, unchanged since
  fr_torn,         \* the current/last format_response read a half-updated register
  m_snap,          \* clients when the current hub tick began
  pruned,          \* the observers removed by M_Prune so far
  alert_at         \* the tick at which alert_status was last assigned, or -1

vars == <<clock, level, drop_count, last_drop_time, drip_rate, alert_status,
          clients, dd_pc, dd_now, dd_elapsed, cur, fr_pc, fr_tmp, m_pc, m_now,
          m_start, m_wake, m_it, m_ws, m_disc, w_pc, w_wake, alive, q_resp,
          m_lvl, m_set, m_sent, low_since, blk_held, fr_torn, m_snap,
          pruned, alert_at>>

registerVars == <<drop_count, last_drop_time, drip_rate>>
ddVars == <<dd_pc, dd_now, dd_elapsed>>
frVars == <<fr_pc, fr_tmp, fr_torn>>
mVars == <<m_pc, m_now, m_start, m_wake, m_it, m_ws, m_disc, m_lvl, m_set,
           m_sent, m_snap, pruned, alert_at>>
wVars == <<w_pc, w_wake>>

\* ------------------------------------------------------------------ tasks
NoTask == [kind |-> "none", id |-> 0]
MonitorTask == [kind |-> "monitor", id |-> 0]
QueryTask == [kind |-> "query", id |-> 0]
WsTask(o) == [kind |-> "ws", id |-> o]

\* ------------------------------------------------------------ pure helpers
\* 60 / elapsed drops per minute, elapsed in ticks.
Rate(elapsed) == <<PerMinute * TicksPerSecond, elapsed>>

\* Mutant: the division made whatever the elapsed time.
RateGuardOff(elapsed) == TRUE

\* if elapsed > 0
RateGuard(elapsed) == elapsed > 0

\* Mutant: the wrap taken one too high.
Mod50Off(r) == <<r[1] % ((DisplayWrap + 1) * r[2]), r[2]>>

\* drip_rate % 50 on a non-negative fraction.
Mod50(r) == <<r[1] % (DisplayWrap * r[2]), r[2]>>

\* int(drip_rate) on a non-negative fraction.
IntOf(r) == r[1] \div r[2]

RatEq(r, s) == r[1] * s[2] = s[1] * r[2]

\* The branches of format_response after line 72.
Render(status, rate) ==
  IF status = "BLOCKED" THEN <<"ALERT: Drip too fast">>
  ELSE IF status = "STOPPED" THEN <<"ALERT: Drip stopped!">>
  ELSE <<"Drip rate: ", IntOf(rate), " drops/min">>

Contains(s, x) == \E i \in 1..Len(s) : s[i] = x

\* list.remove(x): drops the first occurrence of x.
RECURSIVE Remove(_, _)
Remove(s, x) ==
  IF s = <<>> THEN <<>>
  ELSE IF Head(s) = x THEN Tail(s)
  ELSE <<Head(s)>> \o Remove(Tail(s), x)

\* Mutant: the removal made without the membership test, by position.
RemoveUnguarded(s, x) == IF s = <<>> THEN s ELSE Tail(s)

\* if ws in clients: clients.remove(ws)
RemoveIfIn(s, x) == IF Contains(s, x) THEN Remove(s, x) ELSE s

\* for ws in disconnected: if ws in clients: clients.remove(ws)
RECURSIVE Prune(_, _)
Prune(s, disc) ==
  IF disc = <<>> THEN s ELSE Prune(RemoveIfIn(s, Head(disc)), Tail(disc))

\* Mutant: the blocked check made with the stopped check's threshold.
BlockedCondWrong(t, start) == t - start > StoppedAfter

\* time.time() - start_reflecting > 3
BlockedCond(t, start) == t - start > BlockedAfter

\* Mutant: the stopped check an if of its own, made after the blocked one.
AfterBlockedIf == "stopchk"

\* Lines 95-101: the stopped check is the elif of the blocked if, so a cycle
\* that took the blocked branch goes on to the broadcast.
AfterBlocked == "bcast"

\* Mutant: the stopped check one tick late.
StoppedCondLate(now, last) == now - last > StoppedAfter + 1

\* now - last_drop_time > 5
StoppedCond(now, last) == now - last > StoppedAfter

\* ------------------------------------------------------------------- Init
\* Lines 23-24 and the tasks before their first step; the history variables.
InitRest ==
  /\ clock = 0
  /\ drop_count = 0
  /\ last_drop_time = 0
  /\ clients = <<>>
  /\ dd_pc = "idle" /\ dd_now = 0 /\ dd_elapsed = 0
  /\ cur = NoTask
  /\ fr_pc = "idle" /\ fr_tmp = <<0, 1>>
  /\ m_pc = "start" /\ m_now = 0 /\ m_start = 0 /\ m_wake = 0
  /\ m_it = 0 /\ m_ws = 0 /\ m_disc = <<>>
  /\ w_pc = [o \in Obs |-> "new"]
  /\ w_wake = [o \in Obs |-> 0]
  /\ alive = [o \in Obs |-> TRUE]
  /\ q_resp = <<"none">>
  /\ m_lvl = 1 /\ m_set = FALSE /\ m_sent = <<>>
  /\ low_since = 0
  /\ blk_held = FALSE
  /\ fr_torn = FALSE
  /\ m_snap = <<>>
  /\ pruned = {}
  /\ alert_at = -1

\* Lines 20-24: the globals at import; the sensor output is either level.
Init ==
  /\ level \in {0, 1}
  /\ drip_rate = <<0, 1>>
  /\ alert_status = "None"
  /\ InitRest

\* The formatter's inputs: every alert state, every rate n/d up to MaxRate.
Rates == {<<n, d>> : n \in 0..(MaxRate * MaxDen), d \in 1..MaxDen}

InitFmt ==
  /\ level = 1
  /\ drip_rate \in {r \in Rates : r[1] <= MaxRate * r[2]}
  /\ alert_status \in {"None", "BLOCKED", "STOPPED"}
  /\ InitRest

\* ------------------------------------------------------------ environment
\* The event loop is free: a task may be resumed.
LoopFree == cur = NoTask /\ fr_pc = "idle"

\* Some step is due now: code runs in far less than a tick.
Urgent ==
  \/ cur # NoTask
  \/ dd_pc # "idle"
  \/ m_pc = "start"
  \/ m_pc \in {"sleep", "poll"} /\ clock >= m_wake
  \/ \E o \in Obs : w_pc[o] = "sleep" /\ clock >= w_wake[o]

\* The wake-up times of the sleeping tasks.
Deadlines ==
  (IF m_pc \in {"sleep", "poll"} THEN {m_wake} ELSE {})
    \cup {w_wake[o] : o \in {p \in Obs : w_pc[p] = "sleep"}}

Min(S) == CHOOSE x \in S : \A y \in S : x <= y

\* Time passes while nothing is due: d ticks, or less up to the next wake-up.
\* With held = FALSE a reflection is a drop passing the sensor, over within
\* the tick; with held = TRUE the reflection may last (a blocked chamber).
TickBy(d, horizon, held) ==
  /\ ~Urgent
  /\ held \/ level = 1
  /\ Min({clock + d} \cup Deadlines) <= horizon
  /\ clock' = Min({clock + d} \cup Deadlines)
  /\ UNCHANGED <<level, registerVars, alert_status, clients, ddVars, cur,
                 frVars, mVars, wVars, alive, q_resp, low_since, blk_held>>

\* The sensor output falls: pigpio calls drop_detected(gpio, 0, tick).
FallUpTo(n) ==
  /\ level = 1
  /\ dd_pc = "idle"
  /\ drop_count < n
  /\ level' = 0
  /\ dd_pc' = "count"
  /\ low_since' = clock
  /\ blk_held' = FALSE
  /\ UNCHANGED <<clock, registerVars, alert_status, clients, dd_now,
                 dd_elapsed, cur, frVars, mVars, wVars, alive, q_resp>>

\* The sensor output rises: no callback (FALLING_EDGE only).
Rise ==
  /\ level = 0
  /\ level' = 1
  /\ low_since' = clock
  /\ blk_held' = FALSE
  /\ UNCHANGED <<clock, registerVars, alert_status, clients, ddVars, cur,
                 frVars, mVars, wVars, alive, q_resp>>

\* ------------------------------------------------------- drop_detected
\* Lines 35-38: level == 0; drop_count += 1; now; elapsed.
DD_Count ==
  /\ dd_pc = "count"
  /\ drop_count' = drop_count + 1
  /\ dd_now' = clock
  /\ dd_elapsed' = clock - last_drop_time
  /\ dd_pc' = "rate"
  /\ UNCHANGED <<clock, level, last_drop_time, drip_rate, alert_status,
                 clients, cur, frVars, mVars, wVars, alive, q_resp, low_since,
                 blk_held>>

\* Lines 39-40: if elapsed > 0: drip_rate = 60 / elapsed.
DD_Rate ==
  /\ dd_pc = "rate"
  /\ drip_rate' = IF RateGuard(dd_elapsed) THEN Rate(dd_elapsed) ELSE drip_rate
  /\ dd_pc' = "last"
  /\ UNCHANGED <<clock, level, drop_count, last_drop_time, alert_status,
                 clients, dd_now, dd_elapsed, cur, frVars, mVars, wVars,
                 alive, q_resp, low_since, blk_held>>

\* Line 41: last_drop_time = now.
DD_Last ==
  /\ dd_pc = "last"
  /\ last_drop_time' = dd_now
  /\ dd_pc' = "idle"
  /\ UNCHANGED <<clock, level, drop_count, drip_rate, alert_status, clients,
                 dd_now, dd_elapsed, cur, frVars, mVars, wVars, alive, q_resp,
                 low_since, blk_held>>

\* The register is half updated: drop_count advanced, last_drop_time not yet.
MidUpdate == dd_pc \in {"rate", "last"}

\* ----------------------------------------------------- format_response
\* Line 72, right-hand side: global drip_rate is read.
FR_Load ==
  /\ fr_pc = "load"
  /\ fr_tmp' = drip_rate
  /\ fr_torn' = (fr_torn \/ MidUpdate)
  /\ fr_pc' = "store"
  /\ UNCHANGED <<clock, level, registerVars, alert_status, clients, ddVars,
                 cur, mVars, wVars, alive, q_resp, low_since, blk_held>>

\* Mutant: the wrap made by taking 50 off.
StoredRateMinus(tmp) == <<tmp[1] - DisplayWrap * tmp[2], tmp[2]>>

\* The value line 72 assigns to the global.
StoredRate(tmp) == Mod50(tmp)

\* Line 72, assignment: drip_rate = <read value> % 50.
FR_Store ==
  /\ fr_pc = "store"
  /\ drip_rate' = StoredRate(fr_tmp)
  /\ fr_pc' = "ret"
  /\ UNCHANGED <<clock, level, drop_count, last_drop_time, alert_status,
                 clients, ddVars, cur, fr_tmp, fr_torn, mVars, wVars, alive,
                 q_resp, low_since, blk_held>>

\* Lines 73-78: the text, from alert_status and the global drip_rate read again.
FR_Text == Render(alert_status, drip_rate)

\* Lines 73-78 and the return to the caller: get_drip_rate answers (line 53),
\* monitor_loop (line 105) and websocket_endpoint (line 61) await send_text.
FR_Ret ==
  /\ fr_pc = "ret"
  /\ fr_pc' = "idle"
  /\ fr_torn' = (fr_torn \/ (alert_status = "None" /\ MidUpdate))
  /\ cur' = NoTask
  /\ q_resp' = IF cur = QueryTask THEN FR_Text ELSE q_resp
  /\ m_pc' = IF cur = MonitorTask THEN "send" ELSE m_pc
  /\ m_sent' = IF cur = MonitorTask THEN Append(m_sent, <<m_ws, FR_Text>>)
               ELSE m_sent
  /\ w_pc' = IF cur.kind = "ws" THEN [w_pc EXCEPT ![cur.id] = "send"] ELSE w_pc
  /\ UNCHANGED <<clock, level, registerVars, alert_status, clients, ddVars,
                 fr_tmp, m_now, m_start, m_wake, m_it, m_ws, m_disc, m_lvl,
                 m_set, m_snap, pruned, alert_at, w_wake, alive, low_since,
                 blk_held>>

\* Lines 51-53: GET /drip-rate calls format_response.
Query ==
  /\ LoopFree
  /\ cur' = QueryTask
  /\ fr_pc' = "load"
  /\ fr_torn' = FALSE
  /\ UNCHANGED <<clock, level, registerVars, alert_status, clients, ddVars,
                 fr_tmp, mVars, wVars, alive, q_resp, low_since, blk_held>>

\* --------------------------------------------------------- monitor_loop
\* Lines 83-87: now = time.time(); the first pi.read of the cycle.
M_Begin ==
  /\ LoopFree
  /\ m_pc = "start" \/ (m_pc = "sleep" /\ clock >= m_wake)
  /\ cur' = MonitorTask
  /\ m_now' = clock
  /\ m_lvl' = level
  /\ m_set' = FALSE
  /\ m_sent' = <<>>
  /\ m_start' = IF level = 0 THEN clock ELSE m_start
  /\ m_pc' = IF level = 0 THEN "while" ELSE "stopchk"
  /\ UNCHANGED <<clock, level, registerVars, alert_status, clients, ddVars,
                 frVars, m_wake, m_it, m_ws, m_disc, wVars, alive, q_resp,
                 low_since, blk_held,
                 m_snap, pruned, alert_at>>

\* Lines 88-89: while pi.read(IR_PIN) == 0: await asyncio.sleep(0.1).
M_While ==
  /\ m_pc = "while"
  /\ cur = MonitorTask
  /\ IF level = 0
     THEN /\ m_pc' = "poll"
          /\ m_wake' = clock + PollSleep
          /\ cur' = NoTask
     ELSE /\ m_pc' = AfterBlocked
          /\ UNCHANGED <<m_wake, cur>>
  /\ UNCHANGED <<clock, level, registerVars, alert_status, clients, ddVars,
                 frVars, m_now, m_start, m_it, m_ws, m_disc, m_lvl, m_set,
                 m_sent, wVars, alive, q_resp, low_since, blk_held,
                 m_snap, pruned, alert_at>>

\* Lines 90-92: after the sleep, if reflecting > 3 s: BLOCKED, break.
M_Poll ==
  /\ LoopFree
  /\ m_pc = "poll"
  /\ clock >= m_wake
  /\ cur' = MonitorTask
  /\ IF BlockedCond(clock, m_start)
     THEN /\ alert_status' = "BLOCKED"
          /\ m_set' = TRUE
          /\ m_pc' = AfterBlocked
          /\ blk_held' = (level = 0)
          /\ alert_at' = clock
     ELSE /\ m_pc' = "while"
          /\ UNCHANGED <<alert_status, m_set, blk_held, alert_at>>
  /\ UNCHANGED <<clock, level, registerVars, clients, ddVars, frVars, m_now,
                 m_start, m_wake, m_it, m_ws, m_disc, m_lvl, m_sent, wVars,
                 alive, q_resp, low_since,
                 m_snap, pruned>>

\* Lines 95-99: elif now - last_drop_time > 5: STOPPED, else: None.
M_StopChk ==
  /\ m_pc = "stopchk"
  /\ cur = MonitorTask
  /\ alert_status' = IF StoppedCond(m_now, last_drop_time) THEN "STOPPED"
                     ELSE "None"
  /\ m_set' = TRUE
  /\ alert_at' = clock
  /\ m_pc' = "bcast"
  /\ UNCHANGED <<clock, level, registerVars, clients, ddVars, cur, frVars,
                 m_now, m_start, m_wake, m_it, m_ws, m_disc, m_lvl, m_sent,
                 wVars, alive, q_resp, low_since, blk_held,
                 m_snap, pruned>>

\* Lines 102-103: disconnected = []; the iterator over clients is created.
M_Bcast ==
  /\ m_pc = "bcast"
  /\ cur = MonitorTask
  /\ m_disc' = <<>>
  /\ m_it' = 0
  /\ m_snap' = clients
  /\ m_pc' = "next"
  /\ UNCHANGED <<clock, level, registerVars, alert_status, clients, ddVars,
                 cur, frVars, m_now, m_start, m_wake, m_ws, m_lvl, m_set,
                 m_sent, wVars, alive, q_resp, low_since, blk_held,
                 pruned, alert_at>>

\* Lines 103-105: the list iterator's next (by index), then format_response()
\* is called for ws; at the end of the list the loop is left.
M_Next ==
  /\ m_pc = "next"
  /\ cur = MonitorTask
  /\ IF m_it < Len(clients)
     THEN /\ m_ws' = clients[m_it + 1]
          /\ m_it' = m_it + 1
          /\ m_pc' = "fmt"
          /\ fr_pc' = "load"
          /\ fr_torn' = FALSE
     ELSE /\ m_pc' = "prune"
          /\ UNCHANGED <<m_ws, m_it, fr_pc, fr_torn>>
  /\ UNCHANGED <<clock, level, registerVars, alert_status, clients, ddVars,
                 cur, fr_tmp, m_now, m_start, m_wake, m_disc, m_lvl, m_set,
                 m_sent, wVars, alive, q_resp, low_since, blk_held,
                 m_snap, pruned, alert_at>>

\* Line 105: the awaited send_text completes.
M_SendOk ==
  /\ LoopFree
  /\ m_pc = "send"
  /\ alive[m_ws]
  /\ cur' = MonitorTask
  /\ m_pc' = "next"
  /\ UNCHANGED <<clock, level, registerVars, alert_status, clients, ddVars,
                 frVars, m_now, m_start, m_wake, m_it, m_ws, m_disc, m_lvl,
                 m_set, m_sent, wVars, alive, q_resp, low_since, blk_held,
                 m_snap, pruned, alert_at>>

\* Lines 106-107: the awaited send_text raises: disconnected.append(ws).
M_SendFail ==
  /\ LoopFree
  /\ m_pc = "send"
  /\ ~alive[m_ws]
  /\ cur' = MonitorTask
  /\ m_disc' = Append(m_disc, m_ws)
  /\ m_pc' = "next"
  /\ UNCHANGED <<clock, level, registerVars, alert_status, clients, ddVars,
                 frVars, m_now, m_start, m_wake, m_it, m_ws, m_lvl, m_set,
                 m_sent, wVars, alive, q_resp, low_since, blk_held,
                 m_snap, pruned, alert_at>>

\* Lines 108-112: the disconnected are removed; await asyncio.sleep(1).
M_Prune ==
  /\ m_pc = "prune"
  /\ cur = MonitorTask
  /\ clients' = Prune(clients, m_disc)
  /\ pruned' = pruned \cup {m_disc[i] : i \in 1..Len(m_disc)}
  /\ m_pc' = "sleep"
  /\ m_wake' = clock + CycleSleep
  /\ cur' = NoTask
  /\ UNCHANGED <<clock, level, registerVars, alert_status, ddVars, frVars,
                 m_now, m_start, m_it, m_ws, m_disc, m_lvl, m_set, m_sent,
                 wVars, alive, q_resp, low_since, blk_held,
                 m_snap, alert_at>>

\* ---------------------------------------------------- websocket_endpoint
\* Lines 57-61: accept, clients.append(websocket), the first format_response().
\* Observers are interchangeable: they connect in the order of their numbers.
Connect(o) ==
  /\ LoopFree
  /\ w_pc[o] = "new"
  /\ alive[o]
  /\ \A p \in Obs : p < o => w_pc[p] # "new"
  /\ clients' = Append(clients, o)
  /\ w_pc' = [w_pc EXCEPT ![o] = "fmt"]
  /\ cur' = WsTask(o)
  /\ fr_pc' = "load"
  /\ fr_torn' = FALSE
  /\ UNCHANGED <<clock, level, registerVars, alert_status, ddVars, fr_tmp,
                 mVars, w_wake, alive, q_resp, low_since, blk_held>>

\* Lines 61-62: the awaited send_text completes; await asyncio.sleep(2).
W_SendOk(o) ==
  /\ LoopFree
  /\ w_pc[o] = "send"
  /\ alive[o]
  /\ w_pc' = [w_pc EXCEPT ![o] = "sleep"]
  /\ w_wake' = [w_wake EXCEPT ![o] = clock + PushSleep]
  /\ UNCHANGED <<clock, level, registerVars, alert_status, clients, ddVars,
                 cur, frVars, mVars, alive, q_resp, low_since, blk_held>>

\* Lines 63-65: the awaited send_text raises: the observer removes itself.
W_SendFail(o) ==
  /\ LoopFree
  /\ w_pc[o] = "send"
  /\ ~alive[o]
  /\ clients' = RemoveIfIn(clients, o)
  /\ w_pc' = [w_pc EXCEPT ![o] = "done"]
  /\ UNCHANGED <<clock, level, registerVars, alert_status, ddVars, cur,
                 frVars, mVars, w_wake, alive, q_resp, low_since, blk_held>>

\* Lines 60-61: the sleep is over: the next format_response().
W_Wake(o) ==
  /\ LoopFree
  /\ w_pc[o] = "sleep"
  /\ clock >= w_wake[o]
  /\ w_pc' = [w_pc EXCEPT ![o] = "fmt"]
  /\ cur' = WsTask(o)
  /\ fr_pc' = "load"
  /\ fr_torn' = FALSE
  /\ UNCHANGED <<clock, level, registerVars, alert_status, clients, ddVars,
                 fr_tmp, mVars, w_wake, alive, q_resp, low_since, blk_held>>

\* The observer's transport breaks: every later send_text to it raises.
Disconnect(o) ==
  /\ alive[o]
  /\ w_pc[o] # "new"
  /\ alive' = [alive EXCEPT ![o] = FALSE]
  /\ UNCHANGED <<clock, level, registerVars, alert_status, clients, ddVars,
                 cur, frVars, mVars, wVars, q_resp, low_since, blk_held>>

\* ---------------------------------------------------------- specifications
Callback == DD_Count \/ DD_Rate \/ DD_Last

Formatter == FR_Load \/ FR_Store \/ FR_Ret

Evaluator == M_Begin \/ M_While \/ M_Poll \/ M_StopChk \/ M_Bcast

Hub == M_Next \/ M_SendOk \/ M_SendFail \/ M_Prune

Endpoint ==
  \E o \in Obs : Connect(o) \/ W_SendOk(o) \/ W_SendFail(o)
                   \/ Disconnect(o)

\* The whole program with observers connected, over a horizon of two hub
\* ticks: shorter than the 2 s sleep of websocket_endpoint, so no W_Wake.
Next ==
  \/ TickBy(CycleSleep, HubTime, FALSE) \/ FallUpTo(HubDrops) \/ Rise
  \/ Callback \/ Formatter \/ Evaluator \/ Hub \/ Endpoint

Spec == Init /\ [][Next]_vars

\* The sensor, the callback and the evaluator with no observer connected,
\* over a horizon that passes both alert thresholds.  Time moves from one
\* wake-up of the evaluator to the next (1 s asleep, 0.1 s in the sub-wait);
\* an edge falls at such an instant, before or after the evaluator's step.
NextTime ==
  \/ TickBy(CycleSleep, MaxTime, TRUE) \/ FallUpTo(MaxDrops) \/ Rise
  \/ Callback \/ Evaluator \/ M_Next \/ M_Prune

SpecTime == Init /\ [][NextTime]_vars

\* The register, its writer and its readers: the callback, the query endpoint
\* and the evaluator, with no observer connected.
NextReg ==
  \/ TickBy(CycleSleep, RegTime, FALSE) \/ FallUpTo(RegDrops) \/ Rise
  \/ Callback \/ Formatter \/ Query \/ Evaluator \/ M_Next \/ M_Prune

SpecReg == Init /\ [][NextReg]_vars

\* websocket_endpoint with its 2 s cadence, for the first n observers.
EndpointUpTo(n) ==
  \E o \in 1..n : Connect(o) \/ W_SendOk(o) \/ W_SendFail(o) \/ W_Wake(o)
                    \/ Disconnect(o)

\* The whole program over a horizon that passes the 2 s sleep of
\* websocket_endpoint, with a reflection that may last.
NextPush ==
  \/ TickBy(CycleSleep, PushTime, TRUE) \/ FallUpTo(PushDrops) \/ Rise
  \/ Callback \/ Formatter \/ Evaluator \/ Hub \/ EndpointUpTo(PushClients)

SpecPush == Init /\ [][NextPush]_vars

\* The observer set, its hub tick and its endpoints, with a steady sensor.
NextSet ==
  \/ TickBy(CycleSleep, SetTime, TRUE)
  \/ Formatter \/ Evaluator \/ Hub \/ Endpoint

SpecSet == Init /\ [][NextSet]_vars

\* The evaluator, the hub and the endpoints with a steady sensor, for progress.
NextLive ==
  \/ TickBy(CycleSleep, LiveTime, TRUE)
  \/ Formatter \/ Evaluator \/ Hub \/ EndpointUpTo(LiveClients)

\* The event loop runs every task that is ready, time passes, and a send on a
\* broken transport raises; whether a send on a working transport ever
\* returns is up to the observer, and line 105 awaits it without a timeout.
LiveFairness ==
  /\ WF_vars(TickBy(CycleSleep, LiveTime, TRUE))
  /\ WF_vars(Formatter)
  /\ WF_vars(Evaluator)
  /\ WF_vars(M_Next)
  /\ WF_vars(M_SendFail)
  /\ WF_vars(M_Prune)

SpecLive == Init /\ [][NextLive]_vars /\ LiveFairness

\* format_response alone, called by the query endpoint on every input.
NextFmt == Query \/ Formatter

SpecFmt == InitFmt /\ [][NextFmt]_vars

\* ------------------------------------------------------------------ claims
\* The cycle is past its alert checks: the hub tick of lines 101-110.
InBroadcast == m_pc \in {"bcast", "next", "fmt", "send", "prune"}

\* C1: when a cycle of monitor_loop read the level high and no edge event has
\* occurred for more than 5 s before the cycle's now, alert_status is STOPPED
\* when the cycle's checks end and throughout its broadcast; and with no
\* observer connected the level being high for a whole cycle and the last
\* edge being more than 5 s plus one evaluation period old imply STOPPED.
C1_StoppedWithinCycle ==
  /\ (InBroadcast /\ m_lvl = 1 /\ m_now - last_drop_time > StoppedAfter)
       => alert_status = "STOPPED"
  /\ (/\ level = 1
      /\ clock - low_since > CycleSleep + PollSleep
      /\ clock - last_drop_time > StoppedAfter + CycleSleep)
       => alert_status = "STOPPED"

C1_Witness ==
  /\ m_pc = "bcast" /\ m_lvl = 1
  /\ drop_count = 1 /\ dd_pc = "idle"
  /\ m_now - last_drop_time > StoppedAfter
  /\ alert_status = "STOPPED"

C3_NoTornRead == ~fr_torn

\* The interval is a whole number of seconds that divides 60.
DividesMinute(e) ==
  /\ e > 0
  /\ e % TicksPerSecond = 0
  /\ PerMinute % (e \div TicksPerSecond) = 0

\* C4: when an edge event whose interval t since the previous drop is a
\* whole number of seconds dividing 60 completes (line 41), the stored
\* drip_rate equals 60 / t.
C4_RateAfterEvent ==
  [][(dd_pc = "last" /\ dd_pc' = "idle" /\ DividesMinute(dd_elapsed))
       => RatEq(drip_rate', <<PerMinute \div (dd_elapsed \div TicksPerSecond), 1>>)]_vars

\* C5: a step of format_response leaves the Drip Statistics Register
\* (drop_count, last_drop_time, drip_rate) unchanged.
C5_FormatIsPureRead ==
  [][(fr_pc # "idle" /\ fr_pc' # fr_pc)
       => /\ RatEq(drip_rate', drip_rate)
          /\ drop_count' = drop_count
          /\ last_drop_time' = last_drop_time]_vars

\* C6: the text format_response returns for (alert_status, drip_rate) is the
\* fixed blocked message for BLOCKED, the fixed stopped message for STOPPED,
\* and for the normal state the text carrying int(rate) mod 50: rates 0..49
\* unchanged, 50 as 0 and 127 as 27.
C6_FormatResult ==
  (fr_pc = "idle" /\ q_resp # <<"none">>) =>
    /\ alert_status = "BLOCKED" => q_resp = <<"ALERT: Drip too fast">>
    /\ alert_status = "STOPPED" => q_resp = <<"ALERT: Drip stopped!">>
    /\ alert_status = "None" =>
         /\ q_resp = <<"Drip rate: ", IntOf(fr_tmp) % 50, " drops/min">>
         /\ \A n \in 0..49 : fr_tmp = <<n, 1>> => q_resp[2] = n
         /\ fr_tmp = <<50, 1>> => q_resp[2] = 0
         /\ fr_tmp = <<127, 1>> => q_resp[2] = 27

C6_Witness ==
  /\ fr_pc = "idle" /\ alert_status = "None"
  /\ fr_tmp = <<127, 1>>
  /\ q_resp = <<"Drip rate: ", 27, " drops/min">>

\* C7: all pushes of one hub tick carry the same text.
C7_SameTextPerTick ==
  \A i, j \in 1..Len(m_sent) : m_sent[i][2] = m_sent[j][2]

\* The observers pushed to in the current hub tick.
Pushed == {m_sent[i][1] : i \in 1..Len(m_sent)}

\* C8: an observer whose send failed in a hub tick is out of clients when the
\* tick ends and in every later state; every observer whose transport works
\* stays in clients; and in a tick with a failed send every other observer
\* that is in clients from the tick's start to its end was pushed to.
C8_FailedObserverPruned ==
  /\ m_pc = "sleep" => \A i \in 1..Len(m_disc) : ~Contains(clients, m_disc[i])
  /\ \A o \in pruned : ~Contains(clients, o)
  /\ \A o \in Obs : (alive[o] /\ w_pc[o] # "new") => Contains(clients, o)
  /\ (m_pc = "prune" /\ m_disc # <<>>) =>
       \A o \in Obs : (Contains(m_snap, o) /\ Contains(clients, o)) => o \in Pushed

\* The hub starts its push to the next observer of clients.
HubPushNext == M_Next /\ m_pc' = "fmt"

\* C9: while the hub tick waits for one observer's send, the event loop is
\* free and another observer of clients has not been pushed to in this tick,
\* the push to that observer can start without the pending send completing.
C9_SlowObserverDoesNotBlock ==
  (/\ m_pc = "send"
   /\ LoopFree
   /\ \E o \in Obs : Contains(clients, o) /\ o \notin Pushed)
    => ENABLED HubPushNext

\* C10: the alert_status in effect when a cycle broadcasts was assigned by
\* that cycle's own blocked/stopped/normal checks.
C10_RecomputedEachCycle == InBroadcast => m_set

\* The freshness budget of a pushed status: 2 s.
FreshWithin == 2 * TicksPerSecond

\* A status text is being produced for a push to an observer (lines 61, 105).
Pushing == fr_pc = "ret" /\ cur.kind \in {"ws", "monitor"}

\* C11: whenever a status text is produced for a push, by the hub tick or by
\* websocket_endpoint, while the evaluator is not held up by a pending send
\* (it is in its sub-wait, asleep, or pushing itself), the alert_status it
\* reflects was assigned by the evaluator no more than 2 s earlier.
C11_FreshWithinTwoSeconds ==
  (Pushing /\ alert_at >= 0 /\ m_pc # "send")
    => clock - alert_at <= FreshWithin

\* A status text is being produced for a push to observer o.
PushingTo(o) ==
  Pushing /\ (cur = WsTask(o) \/ (cur = MonitorTask /\ m_ws = o))

\* C12: no push is attempted, by the hub tick or by websocket_endpoint, to an
\* observer that has been removed from clients.
C12_NoPushAfterRemoval ==
  \A o \in Obs : PushingTo(o) => Contains(clients, o)

\* C13: in every state drip_rate is a non-negative fraction with a positive
\* denominator, and in every step drop_count stays or grows by exactly one,
\* growing only in the callback's own increment for a falling edge, and
\* last_drop_time never decreases.
C13_RegisterInvariants ==
  /\ [](drip_rate[1] >= 0 /\ drip_rate[2] > 0 /\ drop_count >= 0)
  /\ [][/\ drop_count' \in {drop_count, drop_count + 1}
        /\ drop_count' # drop_count => (dd_pc = "count" /\ dd_pc' = "rate")
        /\ last_drop_time' >= last_drop_time]_vars

C13_Witness ==
  /\ drop_count = 2 /\ dd_pc = "idle"
  /\ last_drop_time > 0 /\ last_drop_time = dd_now
  /\ drip_rate[1] > 0
  /\ fr_pc = "idle" /\ q_resp # <<"none">>

\* C15: an edge event whose elapsed time is zero increments drop_count,
\* leaves drip_rate as it was, and sets last_drop_time to its now.
C15_ZeroElapsedSkipsRate ==
  /\ [][(dd_pc = "count" /\ dd_pc' = "rate" /\ dd_elapsed' = 0)
          => drop_count' = drop_count + 1]_vars
  /\ [][(dd_pc = "rate" /\ dd_pc' = "last" /\ dd_elapsed = 0)
          => drip_rate' = drip_rate]_vars
  /\ [][(dd_pc = "last" /\ dd_pc' = "idle" /\ dd_elapsed = 0)
          => (last_drop_time' = dd_now /\ dd_now = clock)]_vars

C15_Witness ==
  /\ dd_pc = "idle" /\ drop_count = 2 /\ dd_elapsed = 0
  /\ last_drop_time = clock /\ clock > 0
  /\ drip_rate[1] > 0

\* The elements of a list of observers.
Elems(s) == {s[i] : i \in 1..Len(s)}

\* s without the observers of set D, in the same order.
Without(s, D) == SelectSeq(s, LAMBDA x : x \notin D)

\* C14: when websocket_endpoint removes its observer (lines 64-65) or the hub
\* tick removes its disconnected list (lines 108-110), an observer already
\* absent from clients is skipped without error, the removed observers are
\* absent afterwards, and the other observers stay in clients in their order.
C14_RemovalIdempotent ==
  /\ [][\A o \in Obs : (w_pc[o] = "send" /\ w_pc'[o] = "done")
          => /\ clients' = Without(clients, {o})
             /\ ~Contains(clients, o) => clients' = clients]_vars
  /\ [][(m_pc = "prune" /\ m_pc' = "sleep")
          => /\ clients' = Without(clients, Elems(m_disc))
             /\ Elems(m_disc) \cap Elems(clients) = {} => clients' = clients]_vars

C14_Witness ==
  \E o \in Obs :
    /\ w_pc[o] = "done" /\ o \in pruned
    /\ Len(clients) = 1 /\ ~Contains(clients, o)

\* C16: in a cycle whose first read of the level (line 86) is low, the only
\* value the cycle assigns to alert_status is BLOCKED, also when the cycle's
\* now is more than 5 s after the last drop.
C16_BlockedHasPriority ==
  /\ []((m_lvl = 0 /\ m_set) => alert_status = "BLOCKED")
  /\ [][(m_lvl' = 0 /\ alert_status' # alert_status)
          => alert_status' = "BLOCKED"]_vars

C16_Witness ==
  /\ m_lvl = 0 /\ m_pc = "bcast" /\ dd_pc = "idle"
  /\ m_now - last_drop_time > StoppedAfter
  /\ alert_status # "STOPPED"

\* C17: at the step that sets alert_status to BLOCKED (line 91) the level is
\* low.
C17_BlockedOnlyWhileLow ==
  [][(m_pc = "poll" /\ m_set' /\ alert_status' = "BLOCKED") => level = 0]_vars

\* C18: when a hub tick has gone through clients (line 103 is exhausted),
\* every observer that was in clients when the tick began and is in clients
\* now has been pushed to in this tick.
C18_NoObserverSkipped ==
  m_pc = "prune" =>
    \A o \in Elems(m_snap) \cap Elems(clients) : o \in Pushed

\* C19: when the last edge event had elapsed t > 0 and neither the callback
\* nor a format_response call is in progress, the number a format_response
\* call renders from the stored drip_rate, int(drip_rate % 50), is
\* int((60 / t) % 50).
C19_NoLostUpdate ==
  (dd_pc = "idle" /\ fr_pc = "idle" /\ drop_count > 0 /\ dd_elapsed > 0)
    => IntOf(Mod50(drip_rate)) = IntOf(Mod50(Rate(dd_elapsed)))

\* C20: under fair scheduling every evaluation cycle that has reached its
\* broadcast goes on to its sleep, from which the next cycle starts, whatever
\* the observers do.
C20_EvaluatorKeepsRunning == InBroadcast ~> (m_pc = "sleep")

====
